---- MODULE Spec2Model ----
(***************************************************************************)
(* Model of the GraphQL book/author server (src/server.js): the two        *)
(* in-memory arrays, the field resolvers of Book, Author, Query and        *)
(* Mutation, and the HTTP endpoint that runs one request to completion     *)
(* at a time.                                                              *)
(***************************************************************************)
EXTENDS Integers, Sequences, FiniteSets, TLC

VARIABLES authors, books, inbox, last, history

vars == <<authors, books, inbox, last, history>>

(* ---------------------------- bounds ----------------------------------- *)

\* Largest number of mutations handled in one behaviour.
MaxMutations == 3

\* The clients that may have a request in flight at the same time.
Clients == {"c1", "c2"}

\* The (name, authorId) argument pairs a client may pass to addBook: one with
\* the id of an existing author, and one with the id addAuthor hands out,
\* which no element of authors has.
BookArgs == {<<"Dune", 4>>, <<"Emma", 5>>}

\* Values a client may pass as the name argument of addAuthor.
AuthorNames == {"Ursula K. Le Guin"}

(* ------------------------ JavaScript values ---------------------------- *)

\* The JavaScript value undefined (a missing property, a missing argument,
\* the result of Array.prototype.find without a match).
Undefined == [defined |-> FALSE]

Defined(v) == [defined |-> TRUE, value |-> v]

\* Property access rec.f: undefined when the object has no such property.
Get(rec, f) == IF f \in DOMAIN rec THEN Defined(rec[f]) ELSE Undefined

\* The === operator on two possibly-undefined integers.
StrictEquals(a, b) ==
    IF a.defined /\ b.defined THEN a.value = b.value
    ELSE (~a.defined) /\ (~b.defined)

(* --------------------------- initial data ------------------------------ *)

InitialAuthors ==
    << [id |-> 1, name |-> "J.K. Rowling"],
       [id |-> 2, name |-> "George R.R. Martin"],
       [id |-> 3, name |-> "J.R.R. Tolkien"],
       [id |-> 4, name |-> "Isaac Asimov"] >>

InitialBooks ==
    << [id |-> 1, name |-> "Harry Potter and the Philosopher's Stone", authorId |-> 1],
       [id |-> 2, name |-> "Harry Potter and the Chamber of Secrets", authorId |-> 1],
       [id |-> 3, name |-> "A Game of Thrones", authorId |-> 2],
       [id |-> 4, name |-> "A Clash of Kings", authorId |-> 2],
       [id |-> 5, name |-> "The Hobbit", authorId |-> 3],
       [id |-> 6, name |-> "The Lord of the Rings", authorId |-> 3],
       [id |-> 7, name |-> "Foundation", authorId |-> 4],
       [id |-> 8, name |-> "I, Robot", authorId |-> 4] >>

(* ------------------------ array primitives ----------------------------- *)

\* seq.find((x) => x.id === arg), scanning from index i: the first element
\* whose id is strictly equal to arg, or undefined.
RECURSIVE FindById(_, _, _)
FindById(seq, arg, i) ==
    IF i > Len(seq) THEN Undefined
    ELSE IF StrictEquals(Get(seq[i], "id"), arg) THEN Defined(seq[i])
    ELSE FindById(seq, arg, i + 1)

\* seq.filter((x) => x.authorId === arg), scanning from index i: the
\* elements whose authorId is strictly equal to arg, in order.
RECURSIVE FilterByAuthorId(_, _, _)
FilterByAuthorId(seq, arg, i) ==
    IF i > Len(seq) THEN << >>
    ELSE IF StrictEquals(Get(seq[i], "authorId"), arg)
         THEN <<seq[i]>> \o FilterByAuthorId(seq, arg, i + 1)
         ELSE FilterByAuthorId(seq, arg, i + 1)

(* --------------------------- resolvers --------------------------------- *)

\* Variant of BookType.author that looks the author up by the book's own id.
Book_author_byBookId(book) == FindById(authors, Get(book, "id"), 1)

\* BookType.author
Book_author(book) == FindById(authors, Get(book, "authorId"), 1)

\* Variant of AuthorType.books that compares the book's id, not its authorId.
Author_books_byBookId(author) ==
    LET Test(b) == StrictEquals(Get(b, "id"), Get(author, "id"))
    IN SelectSeq(books, Test)

\* AuthorType.books
Author_books(author) == FilterByAuthorId(books, Get(author, "id"), 1)

\* Variant of RootQueryType.book that falls back to the first record when
\* the id argument is omitted.
Query_book_firstWhenOmitted(id) ==
    IF id.defined THEN FindById(books, id, 1) ELSE Defined(books[1])

\* RootQueryType.book; id is Undefined when the argument is omitted.
Query_book(id) == FindById(books, id, 1)

\* RootQueryType.books
Query_books == books

\* RootQueryType.authors
Query_authors == authors

\* RootQueryType.author; id is Undefined when the argument is omitted.
Query_author(id) == FindById(authors, id, 1)

\* Variant of addBook's record whose id is the length itself.
NewBook_lengthAsId(name, authorId) ==
    [id |-> Len(books), name |-> name, authorId |-> authorId]

\* Variant of addBook's record whose id is derived from the other array.
NewBook_authorsLength(name, authorId) ==
    [id |-> Len(authors) + 1, name |-> name, authorId |-> authorId]

\* The record addBook builds.
NewBook(name, authorId) ==
    [id |-> Len(books) + 1, name |-> name, authorId |-> authorId]

\* The record addAuthor builds.
NewAuthor(name) == [id |-> Len(authors) + 1, name |-> name]

(* --------------------------- requests ---------------------------------- *)

NoRequest == [op |-> "none"]

\* Values a client may pass as the optional id argument of book: omitted,
\* the id addAuthor hands out, and the id of the second record ever added.
BookIdArgs == {Undefined, Defined(5), Defined(10)}

\* Values a client may pass as the optional id argument of author: omitted,
\* the id of an initial author, and the id addAuthor hands out.
AuthorIdArgs == {Undefined, Defined(4), Defined(5)}

MutationRequests ==
    { [op |-> "addBook", name |-> a[1], authorId |-> a[2]] : a \in BookArgs }
    \cup { [op |-> "addAuthor", name |-> n] : n \in AuthorNames }

QueryRequests ==
    { [op |-> "book", id |-> i] : i \in BookIdArgs }
    \cup { [op |-> "author", id |-> i] : i \in AuthorIdArgs }
    \cup { [op |-> "books"], [op |-> "authors"] }

Requests == MutationRequests \cup QueryRequests

(* -------------------------- type completion ---------------------------- *)

\* The null the executor puts in the response data.
Null == [null |-> TRUE]

\* A completed value with the errors raised while completing it.
Completed(value, errors) == [value |-> value, errors |-> errors]

\* The error raised when a field declared GraphQLNonNull resolves to
\* undefined.
NonNullError(type, field) ==
    [message |-> "Cannot return null for non-nullable field",
     type |-> type, field |-> field]

\* The first of the non-null fields, in selection order from index i, that
\* the source object lacks; Undefined when it has them all.
RECURSIVE FirstMissing(_, _, _)
FirstMissing(rec, fields, i) ==
    IF i > Len(fields) THEN Undefined
    ELSE IF ~Get(rec, fields[i]).defined THEN Defined(fields[i])
    ELSE FirstMissing(rec, fields, i + 1)

\* The errors of a list of completed items, from index i, in list order.
RECURSIVE ErrorsOf(_, _)
ErrorsOf(items, i) ==
    IF i > Len(items) THEN << >>
    ELSE items[i].errors \o ErrorsOf(items, i + 1)

\* An Author completed for the selection { id name }: a non-null violation
\* nulls the object.
CompleteAuthorScalars(a) ==
    LET missing == FirstMissing(a, <<"id", "name">>, 1) IN
    IF missing.defined
    THEN Completed(Null, <<NonNullError("Author", missing.value)>>)
    ELSE Completed([id |-> a.id, name |-> a.name], << >>)

\* A Book completed for the selection { id name authorId }.
CompleteBookScalars(b) ==
    LET missing == FirstMissing(b, <<"id", "name", "authorId">>, 1) IN
    IF missing.defined
    THEN Completed(Null, <<NonNullError("Book", missing.value)>>)
    ELSE Completed([id |-> b.id, name |-> b.name, authorId |-> b.authorId], << >>)

\* A Book completed for the selection { id name authorId author { id name } }:
\* the fields are completed in selection order, so a non-null violation on
\* the first three nulls the object before Book.author is resolved.
CompleteBook(b) ==
    LET missing == FirstMissing(b, <<"id", "name", "authorId">>, 1) IN
    IF missing.defined
    THEN Completed(Null, <<NonNullError("Book", missing.value)>>)
    ELSE LET resolved == Book_author(b)
             au == IF resolved.defined
                   THEN CompleteAuthorScalars(resolved.value)
                   ELSE Completed(Null, << >>)
         IN Completed([id |-> b.id, name |-> b.name, authorId |-> b.authorId,
                       author |-> au.value],
                      au.errors)

\* An Author completed for the selection
\* { id name books { id name authorId } }, given what Author.books resolved
\* to; a nulled list element leaves the list and the object in place.
CompleteAuthor(a, resolvedBooks) ==
    LET missing == FirstMissing(a, <<"id", "name">>, 1) IN
    IF missing.defined
    THEN Completed(Null, <<NonNullError("Author", missing.value)>>)
    ELSE LET items == [i \in 1..Len(resolvedBooks) |->
                          CompleteBookScalars(resolvedBooks[i])]
         IN Completed([id |-> a.id, name |-> a.name,
                       books |-> [i \in 1..Len(items) |-> items[i].value]],
                      ErrorsOf(items, 1))

\* A list of Books completed element by element.
CompleteBookList(seq) ==
    LET items == [i \in 1..Len(seq) |-> CompleteBook(seq[i])]
    IN Completed([i \in 1..Len(items) |-> items[i].value], ErrorsOf(items, 1))

\* A list of Authors completed element by element.
CompleteAuthorList(seq) ==
    LET items == [i \in 1..Len(seq) |-> CompleteAuthor(seq[i], Author_books(seq[i]))]
    IN Completed([i \in 1..Len(items) |-> items[i].value], ErrorsOf(items, 1))

\* What the endpoint sends back: result is the value the root field's
\* resolver returned, data and errors are the response after type
\* completion of a document that selects every field of the returned object,
\* the object-valued ones one level deep.
Response(req, result, completed) ==
    [req |-> req, result |-> result,
     data |-> completed.value, errors |-> completed.errors]

(* ---------------------------- actions ---------------------------------- *)

Init ==
    /\ authors = InitialAuthors
    /\ books = InitialBooks
    /\ inbox = [c \in Clients |-> NoRequest]
    /\ last = Response(NoRequest, Undefined, Completed(Null, << >>))
    /\ history = << >>

\* A client posts a validated query document to /graphql.
Send(c) ==
    /\ inbox[c] = NoRequest
    /\ \E req \in Requests : inbox' = [inbox EXCEPT ![c] = req]
    /\ UNCHANGED <<authors, books, last, history>>

\* Query { book(id) { id name authorId author { id name } } }
book(c) ==
    /\ inbox[c].op = "book"
    /\ LET found == Query_book(inbox[c].id) IN
        last' = Response(inbox[c], found,
                         IF found.defined THEN CompleteBook(found.value)
                         ELSE Completed(Null, << >>))
    /\ inbox' = [inbox EXCEPT ![c] = NoRequest]
    /\ UNCHANGED <<authors, books, history>>

\* Query { books { id name authorId author { id name } } }
booksQuery(c) ==
    /\ inbox[c].op = "books"
    /\ last' = Response(inbox[c], Query_books, CompleteBookList(Query_books))
    /\ inbox' = [inbox EXCEPT ![c] = NoRequest]
    /\ UNCHANGED <<authors, books, history>>

\* Query { author(id) { id name books { id name authorId } } }
author(c) ==
    /\ inbox[c].op = "author"
    /\ LET found == Query_author(inbox[c].id) IN
        last' = Response(inbox[c], found,
                         IF found.defined
                         THEN CompleteAuthor(found.value, Author_books(found.value))
                         ELSE Completed(Null, << >>))
    /\ inbox' = [inbox EXCEPT ![c] = NoRequest]
    /\ UNCHANGED <<authors, books, history>>

\* Query { authors { id name books { id name authorId } } }
authorsQuery(c) ==
    /\ inbox[c].op = "authors"
    /\ last' = Response(inbox[c], Query_authors, CompleteAuthorList(Query_authors))
    /\ inbox' = [inbox EXCEPT ![c] = NoRequest]
    /\ UNCHANGED <<authors, books, history>>

\* Variant of addBook that puts the new record at the front (unshift).
addBook_unshift(c) ==
    /\ inbox[c].op = "addBook"
    /\ Len(history) < MaxMutations
    /\ LET newBook == NewBook(inbox[c].name, inbox[c].authorId)
           response == Response(inbox[c], newBook, CompleteBook(newBook))
       IN
        /\ books' = <<newBook>> \o books
        /\ last' = response
        /\ history' = Append(history, response)
    /\ inbox' = [inbox EXCEPT ![c] = NoRequest]
    /\ UNCHANGED authors

\* Mutation { addBook(name, authorId) { id name authorId author { id name } } }
addBook(c) ==
    /\ inbox[c].op = "addBook"
    /\ Len(history) < MaxMutations
    /\ LET newBook == NewBook(inbox[c].name, inbox[c].authorId)
           response == Response(inbox[c], newBook, CompleteBook(newBook))
       IN
        /\ books' = Append(books, newBook)
        /\ last' = response
        /\ history' = Append(history, response)
    /\ inbox' = [inbox EXCEPT ![c] = NoRequest]
    /\ UNCHANGED authors

\* Mutation { addAuthor(name) { id name books { id name authorId } } }; the
\* books field is resolved after the push, against the array as the push
\* left it.
addAuthor(c) ==
    /\ inbox[c].op = "addAuthor"
    /\ Len(history) < MaxMutations
    /\ LET newAuthor == NewAuthor(inbox[c].name)
           pushed == Append(books, newAuthor)
           response ==
               Response(inbox[c], newAuthor,
                        CompleteAuthor(newAuthor,
                            FilterByAuthorId(pushed, Get(newAuthor, "id"), 1)))
       IN
        /\ books' = pushed
        /\ last' = response
        /\ history' = Append(history, response)
    /\ inbox' = [inbox EXCEPT ![c] = NoRequest]
    /\ UNCHANGED authors

Next ==
    \E c \in Clients :
        \/ Send(c)
        \/ book(c)
        \/ booksQuery(c)
        \/ author(c)
        \/ authorsQuery(c)
        \/ addBook(c)
        \/ addAuthor(c)

Spec == Init /\ [][Next]_vars

(* ----------------------- auxiliary predicates -------------------------- *)

IsPrefix(s, t) == Len(s) <= Len(t) /\ SubSeq(t, 1, Len(s)) = s

IsBookShaped(r) ==
    /\ DOMAIN r = {"id", "name", "authorId"}
    /\ r.id \in Int
    /\ r.authorId \in Int

\* Some element of the books array is an Author-shaped record.
HasAuthorRecord == \E i \in 1..Len(books) : "authorId" \notin DOMAIN books[i]

\* The positions of the books array whose record carries authorId = a.
PositionsOfAuthor(a) ==
    {i \in 1..Len(books) : "authorId" \in DOMAIN books[i] /\ books[i].authorId = a}

\* The number of addAuthor calls among the first k handled mutations.
AuthorsAddedBefore(k) ==
    Cardinality({j \in 1..(k - 1) : history[j].req.op = "addAuthor"})

(* ------------------------------ claims --------------------------------- *)

\* C1: every addAuthor call makes the authors array one longer, the record
\* it returns is the last element of what the authors query returns, and
\* author(r.id) returns that record.
C1_AddAuthorReachesAuthors ==
    [][\A c \in Clients :
         addAuthor(c) =>
            /\ Len(Query_authors') = Len(Query_authors) + 1
            /\ Query_authors'[Len(Query_authors')] = last'.result
            /\ \A r \in {last'.result} :
                  Query_author(Defined(r.id))' = Defined(r)]_vars

\* C2: every addBook(n, a) call appends exactly one record, with
\* id = previous length + 1, name = n and authorId = a, the record returned
\* is that appended record, and book(id) with the returned id yields it.
C2_AddBookAppends ==
    [][\A c \in Clients :
         addBook(c) =>
            /\ Len(books') = Len(books) + 1
            /\ SubSeq(books', 1, Len(books)) = books
            /\ books'[Len(books')].id = Len(books) + 1
            /\ books'[Len(books')].name = inbox[c].name
            /\ books'[Len(books')].authorId = inbox[c].authorId
            /\ DOMAIN books'[Len(books')] = {"id", "name", "authorId"}
            /\ last'.result = books'[Len(books')]
            /\ \A r \in {last'.result} :
                  Query_book(Defined(r.id))' = Defined(r)]_vars

\* An addBook with an authorId no author has, handled after an addAuthor,
\* returned id 10 and the record at position 10.
C2_Witness ==
    /\ last.req.op = "addBook"
    /\ last.req.authorId = 5
    /\ Len(books) = 10
    /\ "authorId" \notin DOMAIN books[9]
    /\ last.result.id = 10
    /\ books[10] = last.result

\* C3: book(id) returns a Book of the sequence with exactly that id (the
\* first record carrying it) when some record carries the id, and is absent
\* otherwise; with the id omitted it is absent.
C3_BookLookup ==
    \A id \in {Undefined} \cup {Defined(k) : k \in 0..(Len(books) + 1)} :
        LET carriers == {i \in 1..Len(books) : id.defined /\ books[i].id = id.value}
            r == Query_book(id)
        IN IF carriers = {}
           THEN r = Undefined
           ELSE /\ r.defined
                /\ r.value.id = id.value
                /\ IsBookShaped(r.value)
                /\ \E i \in carriers :
                      /\ books[i] = r.value
                      /\ \A j \in carriers : i <= j

\* book(5) was answered with The Hobbit while an Author-shaped record
\* carrying id 5 sits further down the books array.
C3_Witness ==
    /\ last.req = [op |-> "book", id |-> Defined(5)]
    /\ last.result = Defined(InitialBooks[5])
    /\ \E i \in 9..Len(books) : books[i].id = 5

\* C4: for every author A of the authors array, Author.books is exactly the
\* records of the books array whose authorId is A.id, in books order.
C4_AuthorBooksIsFilter ==
    \A a \in 1..Len(authors) :
        LET r == Author_books(authors[a])
            pos == PositionsOfAuthor(authors[a].id)
        IN /\ Len(r) = Cardinality(pos)
           /\ \A i \in pos :
                 r[Cardinality({j \in pos : j <= i})] = books[i]

\* The authors query listed three books for Isaac Asimov, one of them added
\* by addBook, while the books array also holds an Author-shaped record.
C4_Witness ==
    /\ last.req.op = "authors"
    /\ Len(last.data[4].books) = 3
    /\ last.data[4].books[3].id > 8
    /\ last.errors = << >>
    /\ HasAuthorRecord

\* The positions of the authors array whose id is the authorId of record b.
AuthorsMatching(b) ==
    {j \in 1..Len(authors) :
        "authorId" \in DOMAIN b /\ authors[j].id = b.authorId}

\* C5: for every record B of the books array, Book.author is the first
\* author whose id is B.authorId, and absent when there is none; and every
\* Book the books query answered with carries that author, or null, in its
\* author field, with no error raised by that field.
C5_BookAuthorIsFirstMatch ==
    /\ \A b \in 1..Len(books) :
          LET r == Book_author(books[b])
              matches == AuthorsMatching(books[b])
          IN IF matches = {}
             THEN r = Undefined
             ELSE /\ r.defined
                  /\ \E j \in matches :
                        /\ r.value = authors[j]
                        /\ \A k \in matches : j <= k
    /\ last.req.op = "books" =>
          /\ \A i \in 1..Len(last.data) :
                last.data[i] # Null =>
                   LET matches == AuthorsMatching(last.result[i])
                   IN IF matches = {}
                      THEN last.data[i].author = Null
                      ELSE \E j \in matches :
                              /\ last.data[i].author = authors[j]
                              /\ \A k \in matches : j <= k
          /\ \A e \in 1..Len(last.errors) : last.errors[e].field # "author"

\* The books query resolved author to Isaac Asimov for an added book and to
\* absent for a book added with authorId 5, which no author has.
C5_Witness ==
    /\ last.req.op = "books"
    /\ \E i \in 9..Len(last.data) :
          /\ Get(last.result[i], "authorId") = Defined(5)
          /\ last.data[i] # Null
          /\ last.data[i].author = Null
    /\ \E i \in 9..Len(last.data) :
          /\ Get(last.result[i], "authorId") = Defined(4)
          /\ last.data[i] # Null
          /\ last.data[i].author = authors[4]

\* C6: every operation leaves the old books array a prefix of the new one
\* and the old authors array a prefix of the new one.
C6_AppendOnly ==
    [][IsPrefix(books, books') /\ IsPrefix(authors, authors')]_vars

\* After two addBook calls the books query returned the original eight
\* records followed by the two new records in call order.
C6_Witness ==
    /\ last.req.op = "books"
    /\ Len(history) = 2
    /\ history[1].req.op = "addBook"
    /\ history[2].req.op = "addBook"
    /\ history[1].req.name # history[2].req.name
    /\ last.result = InitialBooks \o <<history[1].result, history[2].result>>
    /\ \A i \in 1..Len(last.data) :
          /\ last.data[i] # Null
          /\ last.data[i].id = last.result[i].id
          /\ last.data[i].name = last.result[i].name

\* C7: no two positions of the books array hold records with the same id.
C7_BookIdsUnique ==
    \A i, j \in 1..Len(books) : i # j => books[i].id # books[j].id

\* C8: every addAuthor(n) call returns name n and
\* id = 4 + (number of earlier addAuthor calls) + 1.
C8_AddAuthorIds ==
    \A k \in 1..Len(history) :
        history[k].req.op = "addAuthor" =>
            /\ history[k].result.name = history[k].req.name
            /\ history[k].result.id = Len(InitialAuthors) + AuthorsAddedBefore(k) + 1

\* C9: every record of the books array is Book-shaped, and the books query
\* is answered without a non-null violation.
C9_BooksAreBookShaped ==
    /\ \A i \in 1..Len(books) : IsBookShaped(books[i])
    /\ last.req.op = "books" => last.errors = << >>

\* C10: the ids returned by addBook calls are strictly increasing in the
\* order the calls take effect, whatever is handled between them.
C10_AddBookIdsIncrease ==
    \A k, l \in 1..Len(history) :
        (k < l /\ history[k].req.op = "addBook" /\ history[l].req.op = "addBook")
            => history[k].result.id < history[l].result.id

\* Two addBook calls took effect with an addAuthor call between them.
C10_Witness ==
    /\ Len(history) = 3
    /\ history[1].req.op = "addBook"
    /\ history[2].req.op = "addAuthor"
    /\ history[3].req.op = "addBook"
    /\ history[1].result.id = 9
    /\ history[3].result.id = 11

====
